---- MODULE Spec2Model ----
(***************************************************************************)
(* Webhook ingestion and per-message pipeline of the HealthMitra backend:  *)
(* backend/routes/whatsapp.py (WhatsAppWebhookHandler and its router) and  *)
(* backend/app.py (the application's own webhooks and                      *)
(* process_user_message).                                                  *)
(*                                                                         *)
(* A handler is modelled as an operator over a trace: the sequence of      *)
(* effects it has produced so far (collaborator calls, sends, ledger and   *)
(* location writes) and whether an exception is in flight.  A statement    *)
(* of the code is an operator from trace to trace which does nothing when  *)
(* an exception is in flight; try/except is "IF body.exc THEN handler".    *)
(* The answers of the collaborators are an input o (the oracle), drawn     *)
(* when a message is dispatched.  The background task then performs the    *)
(* effects of the trace one at a time.                                     *)
(*                                                                         *)
(* Strings the code builds by formatting are tuples of their parts, and    *)
(* every message text is a tuple, so that texts compare with each other.   *)
(***************************************************************************)
EXTENDS Naturals, Sequences, FiniteSets, TLC

\* ------------------------------------------------------------------ bounds

\* webhook requests received in one behaviour
MaxRequests == 1

\* delivery attempts whose outcome the oracle fixes for one message: the
\* longest chain in the code is the primary reply and three apologies
MaxSendAttempts == 4

\* ------------------------------------------------------------ python values

\* dict.get of a missing key; also an optional parameter left out
None == "None"

\* a required positional parameter the call site does not pass
MissingArg == "MissingArg"

\* an identifier (button id, list id, payload) that is None
NoneId == <<None>>

\* a body taken as it came
strip_nothing(s) == s

\* str.strip() on the text bodies of the model
strip(s) ==
    CASE s = " I have fever " -> "I have fever"
      [] s = "   "            -> ""
      [] OTHER                -> s

\* str.startswith(prefix) on an identifier kept as the tuple of its parts
startswith(id, prefix) == Len(id) >= 1 /\ id[1] = prefix

\* str.replace(prefix, "") removes every occurrence of the part
replace(id, prefix) == SelectSeq(id, LAMBDA part : part # prefix)

\* ------------------------------------------------------------------ traces

\* a collaborator call: it returned result, or raised (ok is FALSE)
CallEv(name, ok, result) ==
    [name |-> name, ok |-> ok, result |-> result, k |-> "call"]

SendEv(to, text, voice, ok) ==
    [ok |-> ok, k |-> "send", to |-> to, text |-> text, voice |-> voice]

LogEv(phone, message, sender, channel, intent, ok) ==
    [ok |-> ok, k |-> "log", phone |-> phone, message |-> message,
     sender |-> sender, channel |-> channel, intent |-> intent]

LocEv(phone, latitude, longitude, address, ok) ==
    [ok |-> ok, k |-> "loc", phone |-> phone,
     latitude |-> latitude, longitude |-> longitude, address |-> address]

T0 == [ev |-> <<>>, exc |-> FALSE]

Raise(tr) == IF tr.exc THEN tr ELSE [tr EXCEPT !.exc = TRUE]

\* the except clause has caught the exception
Caught(tr) == [tr EXCEPT !.exc = FALSE]

Emit(tr, e, raises) ==
    IF tr.exc THEN tr ELSE [ev |-> Append(tr.ev, e), exc |-> raises]

\* try: body / except Exception: handled.  Nothing runs when an exception is
\* already in flight on entry.
TryExcept(tr, body, handled) ==
    IF tr.exc THEN tr ELSE IF body.exc THEN handled ELSE body

\* try: body / except Exception: log only
TrySwallow(tr, body) == IF tr.exc THEN tr ELSE Caught(body)

IsSend(e) == e.k = "send"
IsLog(e) == e.k = "log"
IsCall(e) == e.k = "call"
IsLoc(e) == e.k = "loc"

Sends(evs) == SelectSeq(evs, IsSend)
Logs(evs) == SelectSeq(evs, IsLog)
Calls(evs) == SelectSeq(evs, IsCall)
Locs(evs) == SelectSeq(evs, IsLoc)

\* ---------------------------------------------------------- configuration

\* a non-empty WHATSAPP_ACCESS_TOKEN (config.py); the empty one is ""
ACCESS_TOKEN == "your_whatsapp_access_token"

WHATSAPP_VERIFY_TOKEN == "your_whatsapp_verify_token"

\* what config.settings can hold in a deployment
Settings ==
    [WHATSAPP_ACCESS_TOKEN : {"", ACCESS_TOKEN}, FEATURE_VOICE : BOOLEAN]

\* whatsapp.py calls datetime.now() and never imports datetime: the call
\* raises NameError.  app.py imports it.
whatsapp_imports_datetime == FALSE
app_imports_datetime == TRUE

\* ------------------------------------------------------------ collaborators

\* utils.helpers.validate_phone_number
ValidPhone == "+911234567890"
InvalidPhone == "12"
validate_phone_number(phone) == phone = ValidPhone

\* utils.helpers.sanitize_input leaves the clean texts of the model as they are
sanitize_input(s) == s

\* the classifier's reply for an intent
NlpResponse(intent) ==
    IF intent = "symptom_check"
    THEN <<"Please describe your symptoms in detail.">>
    ELSE <<"classifier response: ", intent>>

\* a text translated from English is another text
Translated(text, lang) == <<"translated to ", lang, ": ">> \o text

VoiceUrl == "voice_url"

Truthy(x) == x # None /\ x # ""

detect_language(tr, o) ==
    Emit(tr, CallEv("detect_language", o.lang # "raise", o.lang),
         o.lang = "raise")

translate_to_english(tr, o) ==
    Emit(tr, CallEv("translate_to_english", o.to_en, None), ~o.to_en)

process_query(tr, o) ==
    Emit(tr, CallEv("process_query", o.nlp.ok, o.nlp), ~o.nlp.ok)

translate_from_english(tr, o) ==
    Emit(tr, CallEv("translate_from_english", o.from_en, None), ~o.from_en)

generate_speech(tr, o) ==
    Emit(tr, CallEv("generate_speech", o.tts, VoiceUrl), ~o.tts)

\* whatsapp_api.send_message: the n-th delivery attempt of a message
\* succeeds or raises as the oracle says
send_message(tr, to, text, voice, o) ==
    IF tr.exc THEN tr
    ELSE LET n == Len(Sends(tr.ev)) + 1
         IN  Emit(tr, SendEv(to, text, voice, o.send[n]), ~o.send[n])

\* ------------------------------------------------- whatsapp.py: fixed texts

ERROR_TEXT == <<"Sorry, I encountered an error. Please try again in a moment.">>
UNSUPPORTED_TEXT ==
    <<"I can only process text messages at the moment. Please type your health concerns.">>
EMPTY_TEXT ==
    <<"I didn't receive any message. Please type your health question or concern.">>
UNKNOWN_BUTTON_TEXT ==
    <<"I didn't recognize that option. Please try again or type your question.">>
UNKNOWN_SELECTION_TEXT ==
    <<"I didn't recognize that selection. Please try again or type your question.">>
LOCATION_ACK_TEXT == <<"Thank you for sharing your location.">>
IMAGE_TEXT == <<"I see you sent an image. Currently, I can only process text messages.">>
AUDIO_SOON_TEXT == <<"I received your voice message. Voice message processing is coming soon!">>
AUDIO_TEXT == <<"I received your voice message. Currently, I can only process text messages.">>
EMERGENCY_TEXT ==
    <<"This appears to be an emergency. Please contact local emergency services immediately.">>
SYMPTOM_PROMPT_TEXT == <<"Please describe your symptoms. For example: 'I have fever and headache since yesterday'">>
VACCINE_INFO_TEXT == <<"Here is information about vaccination schedules and available vaccines...">>
DISEASE_INFO_TEXT == <<"Please tell me which disease you want information about">>
PREVENTION_TEXT == <<"Here are general prevention tips">>
SHARE_LOCATION_TEXT == <<"Please share your location to get relevant outbreak alerts, or specify a location.">>
EMERGENCY_CONTACTS_TEXT == <<"Emergency Contacts: National Emergency: 112, Ambulance: 108, Police: 100, Fire: 101">>
LANGUAGE_TEXT == <<"Please type your preferred language">>
ESCALATION_TEXT == <<"Connecting you to a human agent.">>

\* ------------------------------------------ whatsapp.py: ledger and location

\* _log_interaction: the INSERT runs unless get_db_connection or
\* datetime.now() raises; the exception is swallowed
\* a ledger write whose failure is not caught
_log_interaction_raising(tr, phone, message, sender, channel, intent, o) ==
    Emit(tr, LogEv(phone, message, sender, channel, intent,
                   o.db /\ whatsapp_imports_datetime),
         ~(o.db /\ whatsapp_imports_datetime))

_log_interaction(tr, phone, message, sender, channel, intent, o) ==
    Emit(tr, LogEv(phone, message, sender, channel, intent,
                   o.db /\ whatsapp_imports_datetime), FALSE)

\* _store_user_location: INSERT OR REPLACE by phone, guarded the same way
_store_user_location(tr, from_number, latitude, longitude, address, o) ==
    Emit(tr, LocEv(from_number, latitude, longitude, address,
                   o.db /\ whatsapp_imports_datetime), FALSE)

\* ------------------------------------------------ whatsapp.py: fixed senders

_send_unsupported_message(tr, from_number, o) ==
    send_message(tr, from_number, UNSUPPORTED_TEXT, None, o)

\* an apology that carries the failure: the last thing that was attempted
_send_error_message_detail(tr, from_number, o) ==
    send_message(tr, from_number,
                 <<"Error: ", tr.ev[Len(tr.ev)].k, Len(tr.ev)>>, None, o)

_send_error_message(tr, from_number, o) ==
    send_message(tr, from_number, ERROR_TEXT, None, o)

_send_empty_message_response(tr, from_number, o) ==
    send_message(tr, from_number, EMPTY_TEXT, None, o)

_send_unknown_button_response(tr, from_number, o) ==
    send_message(tr, from_number, UNKNOWN_BUTTON_TEXT, None, o)

_send_unknown_selection_response(tr, from_number, o) ==
    send_message(tr, from_number, UNKNOWN_SELECTION_TEXT, None, o)

\* ------------------------------------- whatsapp.py: button action handlers

\* metadata is a required parameter
_start_symptom_check(tr, from_number, metadata, o) ==
    IF metadata = MissingArg THEN Raise(tr)
    ELSE send_message(tr, from_number, SYMPTOM_PROMPT_TEXT, None, o)

_send_vaccine_info(tr, from_number, o) ==
    send_message(tr, from_number, VACCINE_INFO_TEXT, None, o)

_send_disease_info(tr, from_number, o) ==
    send_message(tr, from_number, DISEASE_INFO_TEXT, None, o)

_send_prevention_tips(tr, from_number, o) ==
    send_message(tr, from_number, PREVENTION_TEXT, None, o)

_send_outbreak_alerts(tr, from_number, location, o) ==
    send_message(tr, from_number,
                 IF Truthy(location)
                 THEN <<"Checking outbreak alerts for ", location, "...">>
                 ELSE SHARE_LOCATION_TEXT,
                 None, o)

_send_emergency_help(tr, from_number, o) ==
    send_message(tr, from_number, EMERGENCY_CONTACTS_TEXT, None, o)

_change_language(tr, from_number, o) ==
    send_message(tr, from_number, LANGUAGE_TEXT, None, o)

_escalate_to_human(tr, from_number, o) ==
    _log_interaction(send_message(tr, from_number, ESCALATION_TEXT, None, o),
                     from_number, <<"HUMAN_ESCALATION_REQUESTED">>, "system",
                     "whatsapp", None, o)

_send_disease_details(tr, from_number, disease_name, o) ==
    send_message(tr, from_number,
                 <<"Information about ">> \o disease_name
                     \o <<": Symptoms, prevention, and treatment details will be shown here.">>,
                 None, o)

_process_symptom_selection(tr, from_number, symptom, o) ==
    send_message(tr, from_number,
                 <<"Analyzing symptom: ">> \o symptom
                     \o <<". Please describe any other symptoms.">>,
                 None, o)

\* vaccine_type is kept as the tuple of its parts
_send_vaccine_details(tr, from_number, vaccine_type, o) ==
    send_message(tr, from_number,
                 <<"Information about ">> \o vaccine_type
                     \o <<": Schedule, dosage, and side effects will be shown here.">>,
                 None, o)

\* ------------------------------------------- whatsapp.py: special intents

_handle_emergency_intent(tr, from_number, o) ==
    _log_interaction(send_message(tr, from_number, EMERGENCY_TEXT, None, o),
                     from_number, <<"EMERGENCY_DETECTED">>, "system",
                     "whatsapp", None, o)

\* calls self._start_symptom_check(from_number): metadata is not passed
_handle_symptom_check_intent(tr, from_number, o) ==
    _start_symptom_check(tr, from_number, MissingArg, o)

\* a vaccine follow-up that does not look at the entity
_handle_vaccine_info_intent_generic(tr, from_number, entities, o) ==
    _send_vaccine_info(tr, from_number, o)

_handle_vaccine_info_intent(tr, from_number, entities, o) ==
    IF Truthy(entities.vaccine)
    THEN _send_vaccine_details(tr, from_number, <<entities.vaccine>>, o)
    ELSE _send_vaccine_info(tr, from_number, o)

_handle_outbreak_alert_intent(tr, from_number, entities, o) ==
    _send_outbreak_alerts(tr, from_number, entities.location, o)

\* a dispatcher without its try/except: a failing follow-up reaches the
\* except clause of _process_user_query
_handle_special_intent_unguarded(tr, from_number, intent, entities, o) ==
    CASE intent = "emergency" ->
             _handle_emergency_intent(tr, from_number, o)
      [] intent = "vaccine_info" ->
             _handle_vaccine_info_intent(tr, from_number, entities, o)
      [] intent = "outbreak_alert" ->
             _handle_outbreak_alert_intent(tr, from_number, entities, o)
      [] OTHER -> tr

_handle_special_intent(tr, from_number, intent, entities, o) ==
    TrySwallow(tr,
        CASE intent = "emergency" ->
                 _handle_emergency_intent(tr, from_number, o)
          [] intent = "symptom_check" ->
                 _handle_symptom_check_intent(tr, from_number, o)
          [] intent = "vaccine_info" ->
                 _handle_vaccine_info_intent(tr, from_number, entities, o)
          [] intent = "outbreak_alert" ->
                 _handle_outbreak_alert_intent(tr, from_number, entities, o)
          [] OTHER -> tr)

\* ---------------------------------------------- whatsapp.py: text pipeline

\* a pipeline that hands every message to the translator, whatever its
\* language
_process_user_query_translating(tr, from_number, user_message, settings, o) ==
    LET t1 == detect_language(tr, o)
        t2 == translate_to_english(t1, o)
        t3 == process_query(t2, o)
        t4 == translate_from_english(t3, o)
        final_response ==
            IF o.lang # "en" THEN Translated(o.nlp.response, o.lang)
            ELSE o.nlp.response
        t6 == send_message(t4, from_number, final_response, None, o)
        t7 == _log_interaction(t6, from_number, final_response, "bot",
                               "whatsapp", o.nlp.intent, o)
    IN  TryExcept(tr, t7, _send_error_message(Caught(t7), from_number, o))

_process_user_query(tr, from_number, user_message, settings, o) ==
    LET t1 == detect_language(tr, o)
        detected_lang == o.lang
        t2 == IF detected_lang # "en" THEN translate_to_english(t1, o) ELSE t1
        t3 == process_query(t2, o)
        nlp_response == o.nlp
        t4 == IF detected_lang # "en"
              THEN translate_from_english(t3, o) ELSE t3
        final_response ==
            IF detected_lang # "en"
            THEN Translated(nlp_response.response, detected_lang)
            ELSE nlp_response.response
        wants_voice == settings.FEATURE_VOICE /\ nlp_response.needs_voice
        t5 == IF wants_voice THEN TrySwallow(t4, generate_speech(t4, o))
              ELSE t4
        voice_url == IF wants_voice /\ o.tts THEN VoiceUrl ELSE None
        t6 == send_message(t5, from_number, final_response, voice_url, o)
        t7 == _log_interaction(t6, from_number, final_response, "bot",
                               "whatsapp", nlp_response.intent, o)
        t8 == _handle_special_intent(t7, from_number, nlp_response.intent,
                                     nlp_response.entities, o)
    IN  TryExcept(tr, t8, _send_error_message(Caught(t8), from_number, o))

_handle_text_message(tr, message, from_number, settings, o) ==
    LET text_body == strip(IF message.body = None THEN "" ELSE message.body)
        clean == sanitize_input(text_body)
        body ==
            IF text_body = ""
            THEN _send_empty_message_response(tr, from_number, o)
            ELSE _process_user_query(
                     _log_interaction(tr, from_number, <<clean>>, "user",
                                      "whatsapp", None, o),
                     from_number, clean, settings, o)
    IN  TryExcept(tr, body, _send_error_message(Caught(body), from_number, o))

\* ------------------------------------------- whatsapp.py: buttons and lists

KnownButtons ==
    {"symptom_check", "vaccine_info", "disease_info", "prevention_tips",
     "outbreak_alerts", "emergency_help", "language_change", "human_agent"}

\* `await self._start_symptom_check`: the operand is a bound method, not an
\* awaitable, so building the button_actions dict raises TypeError
AwaitMethodObject(tr) == Raise(tr)

\* await action(from_number, metadata)
ButtonAction(tr, button_id, from_number, metadata, o) ==
    CASE button_id = "symptom_check" ->
             _start_symptom_check(tr, from_number, metadata, o)
      [] button_id = "vaccine_info" -> _send_vaccine_info(tr, from_number, o)
      [] button_id = "disease_info" -> _send_disease_info(tr, from_number, o)
      [] button_id = "prevention_tips" ->
             _send_prevention_tips(tr, from_number, o)
      [] button_id = "outbreak_alerts" ->
             _send_outbreak_alerts(tr, from_number, metadata, o)
      [] button_id = "emergency_help" ->
             _send_emergency_help(tr, from_number, o)
      [] button_id = "language_change" -> _change_language(tr, from_number, o)
      [] button_id = "human_agent" -> _escalate_to_human(tr, from_number, o)

_process_button_click(tr, from_number, button_id, metadata, o) ==
    LET button_actions == AwaitMethodObject(tr)
        body ==
            IF button_id \in KnownButtons
            THEN ButtonAction(button_actions, button_id, from_number,
                              metadata, o)
            ELSE _send_unknown_button_response(button_actions, from_number, o)
    IN  TryExcept(tr, body, _send_error_message(Caught(body), from_number, o))

\* a list dispatcher that hands the whole id, prefix included, to the
\* responders
_process_list_selection_whole_id(tr, from_number, list_id, o) ==
    LET body ==
            IF list_id = NoneId THEN Raise(tr)
            ELSE IF startswith(list_id, "disease_")
            THEN _send_disease_details(tr, from_number, list_id, o)
            ELSE IF startswith(list_id, "symptom_")
            THEN _process_symptom_selection(tr, from_number, list_id, o)
            ELSE IF startswith(list_id, "vaccine_")
            THEN _send_vaccine_details(tr, from_number, list_id, o)
            ELSE _send_unknown_selection_response(tr, from_number, o)
    IN  TryExcept(tr, body, _send_error_message(Caught(body), from_number, o))

_process_list_selection(tr, from_number, list_id, o) ==
    LET body ==
            IF list_id = NoneId THEN Raise(tr)
            ELSE IF startswith(list_id, "disease_")
            THEN _send_disease_details(tr, from_number,
                                       replace(list_id, "disease_"), o)
            ELSE IF startswith(list_id, "symptom_")
            THEN _process_symptom_selection(tr, from_number,
                                            replace(list_id, "symptom_"), o)
            ELSE IF startswith(list_id, "vaccine_")
            THEN _send_vaccine_details(tr, from_number,
                                       replace(list_id, "vaccine_"), o)
            ELSE _send_unknown_selection_response(tr, from_number, o)
    IN  TryExcept(tr, body, _send_error_message(Caught(body), from_number, o))

_handle_interactive_message(tr, message, from_number, metadata, o) ==
    LET body ==
            IF message.itype = "button_reply"
            THEN _process_button_click(
                     _log_interaction(tr, from_number,
                         <<"BUTTON: ", message.id, " - ", message.title>>,
                         "user", "whatsapp", None, o),
                     from_number, message.id, metadata, o)
            ELSE IF message.itype = "list_reply"
            THEN _process_list_selection(
                     _log_interaction(tr, from_number,
                         <<"LIST: ">> \o message.lid \o <<" - ", message.title>>,
                         "user", "whatsapp", None, o),
                     from_number, message.lid, o)
            ELSE _send_unsupported_message(tr, from_number, o)
    IN  TryExcept(tr, body, _send_error_message(Caught(body), from_number, o))

_handle_button_message(tr, message, from_number, metadata, o) ==
    LET body ==
            _process_button_click(
                _log_interaction(tr, from_number,
                    <<"BUTTON_LEGACY: ", message.title>>,
                    "user", "whatsapp", None, o),
                from_number, message.id, metadata, o)
    IN  TryExcept(tr, body, _send_error_message(Caught(body), from_number, o))

\* --------------------------------------- whatsapp.py: location, image, audio

_handle_location_message(tr, message, from_number, o) ==
    LET t1 == _log_interaction(tr, from_number,
                  <<"LOCATION: ", message.latitude, ",", message.longitude>>,
                  "user", "whatsapp", None, o)
        t2 == _store_user_location(t1, from_number, message.latitude,
                                   message.longitude, message.address, o)
        t3 == send_message(t2, from_number, LOCATION_ACK_TEXT, None, o)
        t4 == _log_interaction(t3, from_number, LOCATION_ACK_TEXT, "bot",
                               "whatsapp", None, o)
    IN  TryExcept(tr, t4, _send_error_message(Caught(t4), from_number, o))

\* an image handler that also records where the image was sent from
_handle_image_message_located(tr, message, from_number, o) ==
    LET t1 == _log_interaction(tr, from_number, <<"IMAGE: ", message.title>>,
                               "user", "whatsapp", None, o)
        t2 == _store_user_location(t1, from_number, message.latitude,
                                   message.longitude, message.address, o)
        t3 == send_message(t2, from_number, IMAGE_TEXT, None, o)
    IN  TryExcept(tr, t3, _send_error_message(Caught(t3), from_number, o))

_handle_image_message(tr, message, from_number, o) ==
    LET t1 == _log_interaction(tr, from_number, <<"IMAGE: ", message.title>>,
                               "user", "whatsapp", None, o)
        t2 == send_message(t1, from_number, IMAGE_TEXT, None, o)
        t3 == _log_interaction(t2, from_number, IMAGE_TEXT, "bot",
                               "whatsapp", None, o)
    IN  TryExcept(tr, t3, _send_error_message(Caught(t3), from_number, o))

_handle_audio_message(tr, message, from_number, settings, o) ==
    LET audio_response ==
            IF settings.FEATURE_VOICE THEN AUDIO_SOON_TEXT ELSE AUDIO_TEXT
        t1 == _log_interaction(tr, from_number, <<"AUDIO_MESSAGE">>,
                               "user", "whatsapp", None, o)
        t2 == send_message(t1, from_number, audio_response, None, o)
        t3 == _log_interaction(t2, from_number, audio_response, "bot",
                               "whatsapp", None, o)
    IN  TryExcept(tr, t3, _send_error_message(Caught(t3), from_number, o))

\* ------------------------------------------- whatsapp.py: message dispatch

_process_single_message(message, metadata, settings, o) ==
    LET from_number == message.from
        body ==
            IF ~validate_phone_number(from_number) THEN T0
            ELSE CASE message.type = "text" ->
                          _handle_text_message(T0, message, from_number,
                                               settings, o)
                   [] message.type = "interactive" ->
                          _handle_interactive_message(T0, message,
                                                      from_number, metadata, o)
                   [] message.type = "button" ->
                          _handle_button_message(T0, message, from_number,
                                                 metadata, o)
                   [] message.type = "location" ->
                          _handle_location_message(T0, message, from_number, o)
                   [] message.type = "image" ->
                          _handle_image_message(T0, message, from_number, o)
                   [] message.type = "audio" ->
                          _handle_audio_message(T0, message, from_number,
                                                settings, o)
                   [] OTHER -> _send_unsupported_message(T0, from_number, o)
    IN  TryExcept(T0, body, _send_error_message(Caught(body), from_number, o))

\* ------------------------------------------------------ inbound payloads

Message(type, from, body, itype, id, lid, title, latitude, longitude, address) ==
    [id |-> id, latitude |-> latitude, longitude |-> longitude,
     address |-> address, body |-> body, itype |-> itype, title |-> title,
     lid |-> lid, from |-> from, type |-> type]

TextMessage(from, body) ==
    Message("text", from, body, None, None, <<>>, None, None, None, None)
ButtonReply(from, id) ==
    Message("interactive", from, None, "button_reply", id, <<>>, "title",
            None, None, None)
ListReply(from, lid) ==
    Message("interactive", from, None, "list_reply", None, lid, "title",
            None, None, None)
OtherInteractive(from) ==
    Message("interactive", from, None, "nfm_reply", None, <<>>, None,
            None, None, None)
LegacyButton(from, payload) ==
    Message("button", from, None, None, payload, <<>>, "text", None, None, None)
Location(from, latitude, longitude, address) ==
    Message("location", from, None, None, None, <<>>, None, latitude,
            longitude, address)
Image(from) ==
    Message("image", from, None, None, None, <<>>, "caption", None, None, None)
Audio(from) ==
    Message("audio", from, None, None, None, <<>>, None, None, None, None)
Unsupported(from) ==
    Message("video", from, None, None, None, <<>>, None, None, None, None)

FeverText == TextMessage(ValidPhone, " I have fever ")
Delhi == Location(ValidPhone, "28.6", "77.2", "Delhi")
Mumbai == Location(ValidPhone, "19.0", "72.8", "Mumbai")

Messages ==
    {FeverText, TextMessage(ValidPhone, "   "), TextMessage(ValidPhone, ""),
     TextMessage(ValidPhone, None),
     TextMessage(InvalidPhone, " I have fever "),
     OtherInteractive(ValidPhone), Delhi, Mumbai,
     Location(InvalidPhone, "28.6", "77.2", "Delhi"),
     Image(ValidPhone), Audio(ValidPhone), Unsupported(ValidPhone)}
    \cup {ButtonReply(ValidPhone, id) :
              id \in KnownButtons \cup {"other_option", None}}
    \cup {LegacyButton(ValidPhone, id) : id \in {"emergency_help", "other_option"}}
    \cup {ListReply(ValidPhone, lid) :
              lid \in {<<"disease_", "malaria">>, <<"symptom_", "fever">>,
                       <<"vaccine_", "bcg">>, <<"menu_main">>, NoneId}}

\* the "value" of a change: the event key it carries and, under "messages",
\* the messages
Value(key, messages) == [key |-> key, messages |-> messages]
Change(key, messages) == [value |-> Value(key, messages)]
Entry(changes) == [changes |-> changes]
Body(entries) == [entry |-> entries]

OneMessage(m) == Body(<<Entry(<<Change("messages", <<m>>)>>)>>)

Bodies ==
    {OneMessage(m) : m \in Messages}
    \cup {Body(<<>>),
          Body(<<Entry(<<Change("message_deliveries", <<>>)>>)>>),
          Body(<<Entry(<<Change("message_reads", <<>>)>>)>>),
          Body(<<Entry(<<Change("message_template_status_updates", <<>>)>>)>>),
          Body(<<Entry(<<Change("statuses", <<>>)>>)>>),
          \* two messages in one messages array
          Body(<<Entry(<<Change("messages",
                                <<Image(ValidPhone), Audio(ValidPhone)>>)>>)>>),
          Body(<<Entry(<<Change("messages", <<Delhi, Mumbai>>)>>)>>),
          \* two changes of one entry, and two entries
          Body(<<Entry(<<Change("messages", <<Image(ValidPhone)>>),
                         Change("messages", <<Audio(ValidPhone)>>)>>)>>),
          Body(<<Entry(<<Change("message_reads", <<>>)>>),
                 Entry(<<Change("messages", <<Unsupported(ValidPhone)>>)>>)>>)}

\* the SMS simulation's JSON body
SmsBodies ==
    [phone : {ValidPhone, InvalidPhone, None}, message : {"I have fever", None}]

\* a raw request body: bytes that decode to a JSON document, bytes that are
\* no JSON, and bytes that are no UTF-8
Raw(enc, doc) == [enc |-> enc, doc |-> doc]
NotJson == Raw("not_json", Body(<<>>))
NotUtf8 == Raw("not_utf8", Body(<<>>))

\* Starlette's request.json(): json.loads of the body
request_json(raw) ==
    [ok |-> raw.enc = "json",
     doc |-> raw.doc,
     err |-> CASE raw.enc = "not_json" -> "JSONDecodeError"
               [] raw.enc = "not_utf8" -> "UnicodeDecodeError"
               [] OTHER -> None]

\* ----------------------------------------------------- signature verifier

\* hmac.new(key, msg, sha256).hexdigest(), idealised: digests of different
\* (key, message) pairs differ
hexdigest(key, msg) == <<key, msg>>

\* the header value f"sha256={hex}": the scheme and the digest
SignatureHeader(scheme, digest) == <<scheme, digest>>

\* request.headers.get("x-hub-signature-256", ""): <<>> when the header is
\* missing or empty
NoSignature == <<>>

\* a header value with a character outside ASCII
NonAsciiHeader == SignatureHeader("sha256=", <<"non-ascii">>)

\* the headers a request may carry
SignatureHeaders(raw) ==
    {NoSignature,
     SignatureHeader("sha256=", hexdigest(ACCESS_TOKEN, raw)),
     SignatureHeader("sha256=", hexdigest("another_token", raw)),
     SignatureHeader("sha256=", hexdigest(ACCESS_TOKEN, NotJson)),
     SignatureHeader("sha1=", hexdigest(ACCESS_TOKEN, raw)),
     NonAsciiHeader}

Request(endpoint, sig, raw) == [raw |-> raw, endpoint |-> endpoint, sig |-> sig]

\* hmac.compare_digest(a, b) raises TypeError for a str with a non-ASCII
\* character
compare_digest(a, b) ==
    IF b = NonAsciiHeader THEN [value |-> FALSE, raised |-> TRUE]
    ELSE [value |-> a = b, raised |-> FALSE]

\* a verifier that looks at the scheme of the header and not at the digest
_verify_signature_scheme_only(request, settings) ==
    IF settings.WHATSAPP_ACCESS_TOKEN = ""
    THEN [value |-> TRUE, raised |-> FALSE]
    ELSE IF request.sig = NoSignature
    THEN [value |-> FALSE, raised |-> FALSE]
    ELSE [value |-> request.sig[1] = "sha256=", raised |-> FALSE]

\* a verifier without the try/except around the comparison
_verify_signature_unguarded(request, settings) ==
    IF settings.WHATSAPP_ACCESS_TOKEN = ""
    THEN [value |-> TRUE, raised |-> FALSE]
    ELSE IF request.sig = NoSignature
    THEN [value |-> FALSE, raised |-> FALSE]
    ELSE compare_digest(
             SignatureHeader("sha256=",
                 hexdigest(settings.WHATSAPP_ACCESS_TOKEN, request.raw)),
             request.sig)

\* the result of _verify_signature: the value returned, or an exception
\* leaving it
_verify_signature(request, settings) ==
    IF settings.WHATSAPP_ACCESS_TOKEN = ""
    THEN [value |-> TRUE, raised |-> FALSE]
    ELSE LET signature == request.sig
             expected_signature ==
                 hexdigest(settings.WHATSAPP_ACCESS_TOKEN, request.raw)
             expected_header == SignatureHeader("sha256=", expected_signature)
             is_valid == compare_digest(expected_header, signature)
         IN  IF signature = NoSignature
             THEN [value |-> FALSE, raised |-> FALSE]
             ELSE IF is_valid.raised
             THEN [value |-> FALSE, raised |-> FALSE]
             ELSE is_valid

\* ------------------------------------------------------ webhook receivers

\* what a receiver returns: the response, whether it called
\* _verify_signature and got True, whether it added a background task and
\* with which argument, and the pipeline effects it performed itself before
\* returning
Outcome(status, content, verified, scheduled, arg, ran) ==
    [status |-> status, content |-> content, verified |-> verified,
     scheduled |-> scheduled, arg |-> arg, ran |-> ran]

NoArg == Body(<<>>)

\* the query parameters of GET /whatsapp/webhook; None when absent
Query(mode, token, challenge) ==
    [mode |-> mode, token |-> token, challenge |-> challenge]

GetRequest(endpoint, query) ==
    [raw |-> NotJson, endpoint |-> endpoint, sig |-> NoSignature,
     query |-> query]

Queries ==
    {Query(m, t, c) : m \in {None, "", "subscribe", "unsubscribe"},
                      t \in {None, WHATSAPP_VERIFY_TOKEN, "another_token"},
                      c \in {"1158201444", "7402125"}}

\* a verification that does not look at hub.mode
verify_webhook_any_mode(request) ==
    LET token == request.query.token
    IN  IF Truthy(request.query.mode) /\ Truthy(token)
        THEN IF token = WHATSAPP_VERIFY_TOKEN
             THEN Outcome(200, request.query.challenge, FALSE, FALSE, NoArg, <<>>)
             ELSE Outcome(403, "Verification failed", FALSE, FALSE, NoArg, <<>>)
        ELSE Outcome(400, "Missing parameters", FALSE, FALSE, NoArg, <<>>)

verify_webhook(request) ==
    LET mode == request.query.mode
        token == request.query.token
        challenge == request.query.challenge
    IN  IF Truthy(mode) /\ Truthy(token)
        THEN IF mode = "subscribe" /\ token = WHATSAPP_VERIFY_TOKEN
             THEN Outcome(200, challenge, FALSE, FALSE, NoArg, <<>>)
             ELSE Outcome(403, "Verification failed", FALSE, FALSE, NoArg, <<>>)
        ELSE Outcome(400, "Missing parameters", FALSE, FALSE, NoArg, <<>>)

\* a receiver that runs the first pipeline step itself before it answers
handle_webhook_inline(request, settings) ==
    LET verified == _verify_signature(request, settings)
        parsed == request_json(request.raw)
    IN  IF verified.raised \/ ~verified.value
        THEN Outcome(401, "unauthorized", FALSE, FALSE, NoArg, <<>>)
        ELSE IF parsed.ok
        THEN Outcome(200, "success", TRUE, TRUE, parsed.doc,
                     <<CallEv("detect_language", TRUE, "en")>>)
        ELSE Outcome(400, "invalid_json", TRUE, FALSE, NoArg, <<>>)

handle_webhook(request, settings) ==
    LET verified == _verify_signature(request, settings)
        parsed == request_json(request.raw)
    IN  IF verified.raised
        THEN Outcome(500, "error", FALSE, FALSE, NoArg, <<>>)
        ELSE IF ~verified.value
        THEN Outcome(401, "unauthorized", FALSE, FALSE, NoArg, <<>>)
        ELSE IF parsed.ok
        THEN Outcome(200, "success", TRUE, TRUE, parsed.doc, <<>>)
        ELSE IF parsed.err = "JSONDecodeError"
        THEN Outcome(400, "invalid_json", TRUE, FALSE, NoArg, <<>>)
        ELSE Outcome(500, "error", TRUE, FALSE, NoArg, <<>>)

\* -------------------------------------------------------- app.py: webhooks

\* WhatsAppAPI.parse_webhook: the first message of the payload when it is a
\* text message from a valid sender, None otherwise
NoMessageData == [message |-> None, user_phone |-> None]
parse_webhook(body) ==
    IF /\ body.entry # <<>>
       /\ body.entry[1].changes # <<>>
       /\ body.entry[1].changes[1].value.key = "messages"
       /\ body.entry[1].changes[1].value.messages # <<>>
    THEN LET m == body.entry[1].changes[1].value.messages[1]
         IN  IF m.type = "text" /\ m.body # None
                /\ validate_phone_number(m.from)
             THEN [message |-> m.body, user_phone |-> m.from]
             ELSE NoMessageData
    ELSE NoMessageData

\* the arguments of a scheduled process_user_message
UserMessage(user_phone, user_message, channel) ==
    [channel |-> channel, user_message |-> user_message,
     user_phone |-> user_phone]

\* any exception, a malformed body included, becomes HTTPException(500)
whatsapp_webhook(request) ==
    LET parsed == request_json(request.raw)
        message_data == parse_webhook(parsed.doc)
    IN  IF ~parsed.ok
        THEN Outcome(500, "Internal server error", FALSE, FALSE, NoArg, <<>>)
        ELSE IF message_data = NoMessageData
        THEN Outcome(200, "ignored", FALSE, FALSE, NoArg, <<>>)
        ELSE Outcome(200, "received", FALSE, TRUE,
                     UserMessage(message_data.user_phone,
                                 message_data.message, "whatsapp"), <<>>)

\* the HTTPException(400) is raised inside the try block, whose
\* `except Exception` turns it into HTTPException(500)
sms_webhook(request) ==
    LET parsed == request_json(request.raw)
        body == parsed.doc
        raised == ~parsed.ok \/ ~Truthy(body.phone) \/ ~Truthy(body.message)
    IN  IF raised
        THEN Outcome(500, "Internal server error", FALSE, FALSE, NoArg, <<>>)
        ELSE Outcome(200, "received", FALSE, TRUE,
                     UserMessage(body.phone, body.message, "sms"), <<>>)

\* ----------------------------------------- app.py: process_user_message

APP_ERROR_TEXT ==
    <<"Sorry, I'm having trouble processing your request. Please try again later.">>

\* log_interaction: the INSERT runs unless the database raises; swallowed
log_interaction(tr, phone, message, sender, channel, intent, o) ==
    Emit(tr, LogEv(phone, message, sender, channel, intent,
                   o.db /\ app_imports_datetime), FALSE)

\* update_analytics only touches the statistics tables and swallows its
\* own failures: it has no effect on the state modelled here
process_user_message(user_phone, user_message, channel, o) ==
    LET phone == sanitize_input(user_phone)
        message == sanitize_input(user_message)
        t0 == log_interaction(T0, phone, <<message>>, "user", channel, None, o)
        t1 == detect_language(t0, o)
        detected_lang == o.lang
        t2 == IF detected_lang # "en" THEN translate_to_english(t1, o) ELSE t1
        t3 == process_query(t2, o)
        nlp_response == o.nlp
        t4 == IF detected_lang # "en"
              THEN translate_from_english(t3, o) ELSE t3
        final_response ==
            IF detected_lang # "en"
            THEN Translated(nlp_response.response, detected_lang)
            ELSE nlp_response.response
        t5 == IF nlp_response.needs_voice THEN generate_speech(t4, o) ELSE t4
        voice_url == IF nlp_response.needs_voice THEN VoiceUrl ELSE None
        t6 == IF channel = "whatsapp"
              THEN send_message(t5, phone, final_response, voice_url, o)
              ELSE t5
        t7 == log_interaction(t6, phone, final_response, "bot", channel,
                              nlp_response.intent, o)
        h0 == Caught(t7)
        h1 == IF channel = "whatsapp"
              THEN send_message(h0, phone, APP_ERROR_TEXT, None, o)
              ELSE h0
        h2 == log_interaction(h1, phone, APP_ERROR_TEXT, "bot", channel,
                              "error", o)
    IN  TryExcept(T0, t7, h2)

\* ------------------------------------- whatsapp.py: the background task

\* one unit of work of a background task: a message handed to
\* _process_single_message, a status change, or a process_user_message call
Item(kind, at, message) == [message |-> message, kind |-> kind, at |-> at]

METADATA == "metadata"

RECURSIVE Concat(_)
Concat(ss) == IF ss = <<>> THEN <<>> ELSE Head(ss) \o Concat(Tail(ss))

\* a loop that walks the messages array from its end
_handle_messages_reversed(value, ei, ci) ==
    [mi \in 1..Len(value.messages) |->
        Item("message", <<ei, ci, Len(value.messages) + 1 - mi>>,
             value.messages[Len(value.messages) + 1 - mi])]

\* _handle_messages: for message in messages
_handle_messages(value, ei, ci) ==
    [mi \in 1..Len(value.messages) |->
        Item("message", <<ei, ci, mi>>, value.messages[mi])]

StatusKeys ==
    {"message_template_status_updates", "message_deliveries", "message_reads"}

\* the branch of _process_webhook for one change
HandleChange(value, ei, ci) ==
    IF value.key = "messages" THEN _handle_messages(value, ei, ci)
    ELSE IF value.key \in StatusKeys
    THEN <<Item(value.key, <<ei, ci, 0>>, Unsupported(None))>>
    ELSE <<Item("unhandled", <<ei, ci, 0>>, Unsupported(None))>>

\* _process_webhook: for entry_item in entry: for change in changes
_process_webhook(body) ==
    Concat([ei \in 1..Len(body.entry) |->
        Concat([ci \in 1..Len(body.entry[ei].changes) |->
            HandleChange(body.entry[ei].changes[ci].value, ei, ci)])])

\* what one item does, given the collaborators' answers
Handle(item, settings, o) ==
    CASE item.kind = "message" ->
             _process_single_message(item.message, METADATA, settings, o)
      [] item.kind = "process_user_message" ->
             process_user_message(item.message.user_phone,
                                  item.message.user_message,
                                  item.message.channel, o)
      [] OTHER -> T0

\* an exception leaving _process_single_message is caught by
\* _handle_messages, outside its loop: the rest of that messages array is
\* not attempted
SameArray(item, at) == item.at[1] = at[1] /\ item.at[2] = at[2]

\* a loop that attempts an item again when its handling raised
Remaining_retry(queue, item, raised) ==
    IF raised THEN queue ELSE Tail(queue)

Remaining(queue, item, raised) ==
    IF raised
    THEN SelectSeq(Tail(queue), LAMBDA i : ~SameArray(i, item.at))
    ELSE Tail(queue)

\* ------------------------------------------- the collaborators' answers

Intents ==
    {"general", "emergency", "symptom_check", "vaccine_info", "outbreak_alert"}

NoEntities == [location |-> None, vaccine |-> None]

NlpResult(ok, intent, entities, needs_voice) ==
    [ok |-> ok, intent |-> intent, entities |-> entities,
     response |-> NlpResponse(intent), needs_voice |-> needs_voice]

\* an entity is drawn only for the intent that reads it
EntitiesFor(intent) ==
    IF intent = "vaccine_info"
    THEN {NoEntities, [location |-> None, vaccine |-> "bcg"]}
    ELSE IF intent = "outbreak_alert"
    THEN {NoEntities, [location |-> "Delhi", vaccine |-> None]}
    ELSE {NoEntities}

NlpFailure == NlpResult(FALSE, "general", NoEntities, FALSE)

\* the classifier raises, or returns a result
NlpOutcomes(intents) ==
    {NlpFailure}
    \cup UNION {{NlpResult(TRUE, i, e, v) : e \in EntitiesFor(i), v \in BOOLEAN} :
                    i \in intents}

\* a delivery attempt succeeds or raises.  After a reply or an apology has
\* gone out a handler attempts at most the follow-up, and after a failed
\* reply nothing but apologies until one goes out: the outcomes of attempts
\* that are never made are left at TRUE.
SendOutcomes ==
    {s \in [1..MaxSendAttempts -> BOOLEAN] :
        \A i \in 1..MaxSendAttempts :
            (\E j \in 1..(i - 1) : s[j] /\ (j > 1 \/ i > 2)) => s[i]}

\* detect_language and the two translations: an answer that is never asked
\* for is left at TRUE
LanguageOutcomes ==
    {[lang |-> "en", to_en |-> TRUE, from_en |-> TRUE],
     [lang |-> "hi", to_en |-> TRUE, from_en |-> TRUE],
     [lang |-> "hi", to_en |-> FALSE, from_en |-> TRUE],
     [lang |-> "hi", to_en |-> TRUE, from_en |-> FALSE],
     [lang |-> "raise", to_en |-> TRUE, from_en |-> TRUE]}

Oracle(l, nlp, tts, send, db) ==
    [send |-> send, lang |-> l.lang, to_en |-> l.to_en, nlp |-> nlp,
     from_en |-> l.from_en, tts |-> tts, db |-> db]

\* the classifier is reached when detection and translation succeeded,
\* speech synthesis when the result asks for voice
NlpFor(l, intents) ==
    IF l.lang = "raise" \/ ~l.to_en THEN {NlpFailure} ELSE NlpOutcomes(intents)

TtsFor(l, nlp) ==
    IF nlp.ok /\ nlp.needs_voice /\ l.from_en THEN BOOLEAN ELSE {TRUE}

PipelineOracles(intents) ==
    UNION {UNION {{Oracle(l, n, t, s, d) :
                       t \in TtsFor(l, n), s \in SendOutcomes, d \in BOOLEAN} :
                   n \in NlpFor(l, intents)} :
           l \in LanguageOutcomes}

TextOracles == PipelineOracles(Intents)

\* process_user_message does not read the intent or the entities
AppOracles == PipelineOracles({"general"})

\* the handlers of the other messages only send and write
PlainOracles ==
    {Oracle([lang |-> "en", to_en |-> TRUE, from_en |-> TRUE],
            NlpResult(TRUE, "general", NoEntities, FALSE), TRUE, s, d) :
         s \in SendOutcomes, d \in BOOLEAN}

Oracles(item) ==
    IF item.kind = "process_user_message" THEN AppOracles
    ELSE IF item.kind = "message" /\ item.message.type = "text"
    THEN TextOracles
    ELSE PlainOracles

\* ------------------------------------------------------------------- state

VARIABLES
    settings,        \* config.settings
    nreq,            \* requests received so far
    req,             \* the request being answered, until its task starts
    response,        \* the endpoint of the latest request and its response
    task,            \* its background task: pc, argument, work left
    cur,             \* the item the task is handling
    raised,          \* an exception leaves the handling of cur
    todo,            \* the effects of cur still to be performed
    hist,            \* the effects of cur performed so far
    dispatched,      \* the positions of the items handled by the task
    ledger,          \* the interactions table
    user_locations   \* the user_locations table

vars == <<settings, nreq, req, response, task, cur, raised, todo, hist,
          dispatched, ledger, user_locations>>

NoItem == Item("none", <<0, 0, 0>>, Unsupported(None))
NoRequest == Request("none", NoSignature, NotJson)
NoResponse ==
    [endpoint |-> "none", status |-> 0, content |-> "none", verified |-> FALSE]
NoTask == [arg |-> NoArg, queue |-> <<>>, pc |-> "idle"]

Init ==
    /\ settings \in Settings
    /\ nreq = 0
    /\ req = NoRequest
    /\ response = NoResponse
    /\ task = NoTask
    /\ cur = NoItem
    /\ raised = FALSE
    /\ todo = <<>>
    /\ hist = <<>>
    /\ dispatched = <<>>
    /\ ledger = <<>>
    /\ user_locations = {}

\* the rows of the tables
Row(e, n) ==
    [phone |-> e.phone, message |-> e.message, sender |-> e.sender,
     channel |-> e.channel, intent |-> e.intent, req |-> n]

LocationRow(e) ==
    [phone |-> e.phone, latitude |-> e.latitude, longitude |-> e.longitude,
     address |-> e.address]

\* INSERT OR REPLACE INTO user_locations, keyed by phone
Upsert(rows, row) == {r \in rows : r.phone # row.phone} \cup {row}

\* the rows a run of effects appends to the interactions table
RECURSIVE Rows(_, _)
Rows(evs, n) ==
    IF evs = <<>> THEN <<>>
    ELSE (IF IsLog(Head(evs)) /\ Head(evs).ok
          THEN <<Row(Head(evs), n)>> ELSE <<>>) \o Rows(Tail(evs), n)

\* the user_locations table after a run of effects
RECURSIVE Upserts(_, _)
Upserts(rows, evs) ==
    IF evs = <<>> THEN rows
    ELSE Upserts(IF IsLoc(Head(evs)) /\ Head(evs).ok
                 THEN Upsert(rows, LocationRow(Head(evs))) ELSE rows,
                 Tail(evs))

\* the length of the run of effects that ends with the next delivery attempt
RECURSIVE UntilAwait(_)
UntilAwait(evs) ==
    IF evs = <<>> THEN 0
    ELSE IF IsSend(Head(evs)) THEN 1
    ELSE 1 + UntilAwait(Tail(evs))

RawBodies == {Raw("json", b) : b \in Bodies} \cup {NotJson, NotUtf8}
SmsRawBodies == {Raw("json", b) : b \in SmsBodies} \cup {NotJson}

\* a request is served: the handler runs to its return, the response goes
\* out, and the task it added is queued behind the response
Receive(request, out) ==
    /\ nreq < MaxRequests
    /\ task.pc \in {"idle", "done"}
    /\ nreq' = nreq + 1
    /\ req' = request
    /\ response' = [endpoint |-> request.endpoint, status |-> out.status,
                    content |-> out.content, verified |-> out.verified]
    /\ task' = [arg |-> out.arg,
                queue |-> <<>>, pc |-> IF out.scheduled THEN "scheduled" ELSE "idle"]
    /\ cur' = NoItem
    /\ raised' = FALSE
    /\ todo' = <<>>
    /\ hist' = out.ran
    /\ dispatched' = <<>>
    /\ UNCHANGED <<settings, ledger, user_locations>>

\* POST /whatsapp/webhook
WebhookReceiver ==
    \E raw \in RawBodies : \E sig \in SignatureHeaders(raw) :
        LET request == Request("webhook_receiver", sig, raw)
        IN  Receive(request, handle_webhook(request, settings))

\* GET /whatsapp/webhook
WebhookVerification ==
    \E query \in Queries :
        LET request == GetRequest("webhook_verification", query)
        IN  Receive(request, verify_webhook(request))

\* POST /api/webhook/whatsapp
AppWhatsappWebhook ==
    \E raw \in RawBodies :
        \E sig \in {NoSignature,
                    SignatureHeader("sha256=", hexdigest(ACCESS_TOKEN, raw))} :
            LET request == Request("whatsapp_webhook", sig, raw)
            IN  Receive(request, whatsapp_webhook(request))

\* POST /api/sms/webhook
AppSmsWebhook ==
    \E raw \in SmsRawBodies :
        LET request == Request("sms_webhook", NoSignature, raw)
        IN  Receive(request, sms_webhook(request))

\* the background task starts after the response has gone out; the request
\* object is gone by then
StartTask ==
    /\ task.pc = "scheduled"
    /\ task' = [task EXCEPT
                  !.pc = "running",
                  !.queue = IF response.endpoint = "webhook_receiver"
                            THEN _process_webhook(task.arg)
                            ELSE <<Item("process_user_message", <<1, 1, 1>>,
                                        task.arg)>>]
    /\ req' = NoRequest
    /\ UNCHANGED <<settings, nreq, response, cur, raised, todo, hist,
                   dispatched, ledger, user_locations>>

\* the task takes the next item; the collaborators' answers fix its course
Dispatch ==
    /\ task.pc = "running"
    /\ todo = <<>>
    /\ task.queue # <<>>
    /\ LET item == Head(task.queue)
       IN  \E o \in Oracles(item) :
               LET tr == Handle(item, settings, o)
               IN  /\ cur' = item
                   /\ todo' = tr.ev
                   /\ raised' = tr.exc
                   /\ task' = [task EXCEPT
                                 !.queue = Remaining(task.queue, item, tr.exc)]
                   /\ dispatched' = Append(dispatched, item.at)
    /\ hist' = <<>>
    /\ UNCHANGED <<settings, nreq, req, response, ledger, user_locations>>

\* the synchronous calls of a handler run without yielding; the task is
\* suspended only in `await whatsapp_api.send_message`.  A step performs the
\* effects up to and including the next delivery attempt.
Step ==
    /\ task.pc = "running"
    /\ todo # <<>>
    /\ LET n == UntilAwait(todo)
           done == SubSeq(todo, 1, n)
       IN  /\ hist' = hist \o done
           /\ ledger' = ledger \o Rows(done, nreq)
           /\ user_locations' = Upserts(user_locations, done)
           /\ todo' = SubSeq(todo, n + 1, Len(todo))
    /\ UNCHANGED <<settings, nreq, req, response, task, cur, raised,
                   dispatched>>

\* no work is left
Finish ==
    /\ task.pc = "running"
    /\ todo = <<>>
    /\ task.queue = <<>>
    /\ task' = [task EXCEPT !.pc = "done"]
    /\ UNCHANGED <<settings, nreq, req, response, cur, raised, todo, hist,
                   dispatched, ledger, user_locations>>

Next ==
    \/ WebhookVerification
    \/ WebhookReceiver
    \/ AppWhatsappWebhook
    \/ AppSmsWebhook
    \/ StartTask
    \/ Dispatch
    \/ Step
    \/ Finish

Spec == Init /\ [][Next]_vars

\* the event loop runs a task that can run: a scheduled task is started, and
\* every await of a running task returns
\* The Dispatch steps are the steps that take the head of the queue, and
\* fairness is stated on them by what they do to `dispatched`.
TakeNext ==
    /\ task.pc = "running"
    /\ todo = <<>>
    /\ task.queue # <<>>
    /\ dispatched' = Append(dispatched, Head(task.queue).at)

LiveSpec ==
    /\ Spec
    /\ WF_vars(StartTask)
    /\ WF_dispatched(TakeNext)
    /\ WF_vars(Step)
    /\ WF_vars(Finish)

\* ------------------------------------------------------------------ claims

\* the header the platform computes for a body under the configured secret
ExpectedHeader(raw) ==
    SignatureHeader("sha256=", hexdigest(settings.WHATSAPP_ACCESS_TOKEN, raw))

\* the interactions rows written while serving the latest request
RowsOfRequest == SelectSeq(ledger, LAMBDA r : r.req = nreq)

\* C1: with a non-empty secret configured, a request to handle_webhook whose
\* x-hub-signature-256 header is missing or differs from the expected one is
\* answered 401 and _process_webhook is never scheduled for it: no task, no
\* item handled, no effect performed, no interaction row.
C1_RejectedNeverProcessed ==
    ( /\ req.endpoint = "webhook_receiver"
      /\ settings.WHATSAPP_ACCESS_TOKEN # ""
      /\ req.sig # ExpectedHeader(req.raw) )
    => /\ response.status = 401
       /\ task.pc = "idle"
       /\ task.queue = <<>>
       /\ cur = NoItem
       /\ todo = <<>>
       /\ hist = <<>>
       /\ dispatched = <<>>
       /\ RowsOfRequest = <<>>

\* a request with a well-formed header computed under another key has been
\* answered
C1_Witness ==
    /\ req.endpoint = "webhook_receiver"
    /\ settings.WHATSAPP_ACCESS_TOKEN # ""
    /\ req.sig = SignatureHeader("sha256=", hexdigest("another_token", req.raw))
    /\ request_json(req.raw).ok
    /\ response.status = 401

\* C2: a payload is handed to background processing by a WhatsApp webhook
\* endpoint (the router's or the application's) only after signature
\* verification returned true for the request.  (Fails: the application's
\* endpoint schedules without verifying.)
C2_ScheduledOnlyIfVerified ==
    ( /\ response.endpoint \in {"webhook_receiver", "whatsapp_webhook"}
      /\ task.pc # "idle" )
    => response.verified

\* C3: _verify_signature returns true exactly when the secret is empty or the
\* header equals "sha256=" followed by the HMAC-SHA256 of the raw body under
\* the secret, and no exception leaves it (the receiver would answer 500
\* before reading the body).
C3_VerifyExact ==
    req.endpoint = "webhook_receiver"
    => LET result == _verify_signature(req, settings)
       IN  /\ ~result.raised
           /\ result.value <=> ( \/ settings.WHATSAPP_ACCESS_TOKEN = ""
                                 \/ req.sig = ExpectedHeader(req.raw) )
           /\ response.verified = result.value
           /\ ~result.value => response.status = 401

\* the verifier has accepted a matching header under a non-empty secret
C3_Witness ==
    /\ req.endpoint = "webhook_receiver"
    /\ settings.WHATSAPP_ACCESS_TOKEN # ""
    /\ req.sig = ExpectedHeader(req.raw)
    /\ response.verified
    /\ response.status = 200

\* C4: handle_webhook produces its response without running any pipeline
\* step: at the moment the response exists no item has been handled and no
\* effect performed or written, and no later step of the background task
\* changes the response.
C4_AckBeforePipeline ==
    [][ /\ nreq' # nreq
           => /\ nreq' = nreq + 1
              /\ hist' = <<>>
              /\ todo' = <<>>
              /\ dispatched' = <<>>
              /\ cur' = NoItem
              /\ ledger' = ledger
              /\ user_locations' = user_locations
        /\ nreq' = nreq => response' = response ]_vars

\* an accepted request was answered success and its background task has
\* ended with an exception leaving the handling of a message
C4_Witness ==
    /\ response.endpoint = "webhook_receiver"
    /\ response.status = 200
    /\ response.content = "success"
    /\ task.pc = "done"
    /\ raised
    /\ hist # <<>>

\* C5: the response of the WhatsApp receivers (handle_webhook and the
\* application's whatsapp_webhook) is always success, the 401 authorization
\* failure or the 400 malformed-body failure.  (Fails: both answer 500.)
C5_OnlySuccess401Or400 ==
    response.endpoint \in {"webhook_receiver", "whatsapp_webhook"}
    => response.status \in {200, 401, 400}

\* the positions of the messages of a payload that come from a valid sender
ValidMessageItems(body) ==
    {item.at : item \in
        {i \in {_process_webhook(body)[n] :
                    n \in 1..Len(_process_webhook(body))} :
            i.kind = "message" /\ validate_phone_number(i.message.from)}}

\* C6: a failure while handling one message never keeps the remaining
\* messages of the payload from being attempted: when the background task
\* of handle_webhook has ended, every message with a valid sender has been
\* handed to _process_single_message.  (Fails: an exception leaving
\* _process_single_message ends the loop over its messages array.)
C6_EveryMessageDispatched ==
    (response.endpoint = "webhook_receiver" /\ task.pc = "done")
    => \A at \in ValidMessageItems(task.arg) :
           \E n \in 1..Len(dispatched) : dispatched[n] = at

\* the effects of the item being handled, performed and still to perform
Course == hist \o todo

\* cur is a text message with a body, from a valid sender, handled by the
\* WhatsApp handler
TextInPipeline ==
    /\ cur.kind = "message"
    /\ cur.message.type = "text"
    /\ validate_phone_number(cur.message.from)
    /\ cur.message.body # None
    /\ strip(cur.message.body) # ""

PipelineSteps ==
    {"detect_language", "translate_to_english", "process_query",
     "translate_from_english"}

\* the i-th effect is a pipeline step that raised: a language or
\* classification call, or the primary delivery (the first delivery
\* attempt, when it does not carry the apology)
StepRaised(evs, i) ==
    \/ IsCall(evs[i]) /\ evs[i].name \in PipelineSteps /\ ~evs[i].ok
    \/ /\ IsSend(evs[i])
       /\ ~evs[i].ok
       /\ evs[i].text # ERROR_TEXT
       /\ \A j \in 1..(i - 1) : ~IsSend(evs[j])

\* C7: whichever of detection, translation to the working language,
\* classification, translation back or primary delivery raises for a text
\* message in the WhatsApp handler, the next thing done is a delivery to the
\* sender of the one fixed apology text without voice, and nothing else is
\* sent afterwards: the text does not depend on the step that failed.
C7_SameApologyForEveryStep ==
    TextInPipeline
    => \A i \in 1..Len(Course) :
           StepRaised(Course, i)
           => /\ i < Len(Course)
              /\ \A j \in (i + 1)..Len(Course) :
                     /\ IsSend(Course[j])
                     /\ Course[j].to = cur.message.from
                     /\ Course[j].text = ERROR_TEXT
                     /\ Course[j].voice = None

\* translation back raised for a message in another language and the
\* apology has gone out
C7_Witness ==
    /\ TextInPipeline
    /\ todo = <<>>
    /\ \E i \in 1..(Len(hist) - 1) :
           /\ IsCall(hist[i])
           /\ hist[i].name = "translate_from_english"
           /\ ~hist[i].ok
           /\ hist[i + 1] = SendEv(cur.message.from, ERROR_TEXT, None, TRUE)

\* C8: whenever the handling of a message ends with the apology sent, a
\* bot interaction tagged intent=error has been appended to the ledger for
\* that sender, in the WhatsApp handler and in process_user_message.
\* (Fails: the WhatsApp handler's _send_error_message writes nothing.)
C8_ApologyIsLogged ==
    ( /\ cur.kind \in {"message", "process_user_message"}
      /\ todo = <<>> )
    => \A i \in 1..Len(hist) :
           ( /\ IsSend(hist[i])
             /\ hist[i].text \in {ERROR_TEXT, APP_ERROR_TEXT}
             /\ hist[i].ok )
           => \E n \in 1..Len(RowsOfRequest) :
                  /\ RowsOfRequest[n].phone = hist[i].to
                  /\ RowsOfRequest[n].sender = "bot"
                  /\ RowsOfRequest[n].intent = "error"

\* cur is a text message in the working language that the classifier
\* labelled symptom_check without voice, every delivery succeeded and the
\* database accepted every write
SymptomCheckCase ==
    /\ TextInPipeline
    /\ todo = <<>>
    /\ \E i \in 1..Len(hist) :
           /\ IsCall(hist[i])
           /\ hist[i].name = "detect_language"
           /\ hist[i].result = "en"
    /\ \E i \in 1..Len(hist) :
           /\ IsCall(hist[i])
           /\ hist[i].name = "process_query"
           /\ hist[i].ok
           /\ hist[i].result.intent = "symptom_check"
           /\ ~hist[i].result.needs_voice
    /\ \A i \in 1..Len(hist) : IsSend(hist[i]) => hist[i].ok

\* C9: such a message produces exactly one user interaction with its body,
\* one primary delivery without voice, one bot interaction with the
\* classifier's response, and then one delivery of the symptom-check prompt;
\* no apology.  (Fails: the prompt is never sent, no interaction is written.)
C9_SymptomCheckFlow ==
    SymptomCheckCase
    => LET from == cur.message.from
           body == sanitize_input(strip(cur.message.body))
           reply == NlpResponse("symptom_check")
       IN  /\ Sends(hist) = <<SendEv(from, reply, None, TRUE),
                              SendEv(from, SYMPTOM_PROMPT_TEXT, None, TRUE)>>
           /\ RowsOfRequest =
                  <<[phone |-> from, message |-> <<body>>, sender |-> "user",
                     channel |-> "whatsapp", intent |-> None, req |-> nreq],
                    [phone |-> from, message |-> reply, sender |-> "bot",
                     channel |-> "whatsapp", intent |-> "symptom_check",
                     req |-> nreq]>>

\* the fixed reply of the handler of a known button
FixedReply(id) ==
    CASE id = "symptom_check" -> SYMPTOM_PROMPT_TEXT
      [] id = "vaccine_info" -> VACCINE_INFO_TEXT
      [] id = "disease_info" -> DISEASE_INFO_TEXT
      [] id = "prevention_tips" -> PREVENTION_TEXT
      [] id = "outbreak_alerts" -> SHARE_LOCATION_TEXT
      [] id = "emergency_help" -> EMERGENCY_CONTACTS_TEXT
      [] id = "language_change" -> LANGUAGE_TEXT
      [] id = "human_agent" -> ESCALATION_TEXT

\* cur is a button reply or a legacy button carrying a known key, from a
\* valid sender
KnownButtonClick ==
    /\ cur.kind = "message"
    /\ validate_phone_number(cur.message.from)
    /\ \/ cur.message.type = "interactive" /\ cur.message.itype = "button_reply"
       \/ cur.message.type = "button"
    /\ cur.message.id \in KnownButtons

\* C10: a click on a known button produces exactly one reply, the fixed
\* reply of that button's handler: no apology, and no language or
\* classification call.  (Fails: every click is answered with the apology.)
C10_KnownButtonFixedReply ==
    ( /\ KnownButtonClick
      /\ todo = <<>>
      /\ \A i \in 1..Len(hist) : IsSend(hist[i]) => hist[i].ok )
    => /\ Sends(hist) = <<SendEv(cur.message.from,
                                 FixedReply(cur.message.id), None, TRUE)>>
       /\ Calls(hist) = <<>>

\* cur is a button reply or a legacy button, from a valid sender, whose key
\* is not one of the known ones
UnknownButtonClick ==
    /\ cur.kind = "message"
    /\ validate_phone_number(cur.message.from)
    /\ \/ cur.message.type = "interactive" /\ cur.message.itype = "button_reply"
       \/ cur.message.type = "button"
    /\ cur.message.id \notin KnownButtons

\* C11: a click on a button whose key is not known is answered with one
\* reply, the fixed "unrecognized option" text, and not with the apology.
\* (Fails: the apology is sent, as for every click.)
C11_UnknownButtonReply ==
    ( /\ UnknownButtonClick
      /\ todo = <<>>
      /\ \A i \in 1..Len(hist) : IsSend(hist[i]) => hist[i].ok )
    => Sends(hist) =
           <<SendEv(cur.message.from, UNKNOWN_BUTTON_TEXT, None, TRUE)>>

\* cur is a location message from a valid sender
LocationEvent ==
    /\ cur.kind = "message"
    /\ cur.message.type = "location"
    /\ validate_phone_number(cur.message.from)

\* C12: a location from a valid sender leaves a user interaction for the
\* location, the user_locations row of the phone set to the event's
\* latitude, longitude and address, one acknowledgment delivered and a bot
\* interaction for it: two rows appended.  (Fails: nothing is written.)
C12_LocationRecorded ==
    ( /\ LocationEvent
      /\ todo = <<>>
      /\ \A i \in 1..Len(hist) : IsSend(hist[i]) => hist[i].ok )
    => LET m == cur.message
       IN  /\ Sends(hist) = <<SendEv(m.from, LOCATION_ACK_TEXT, None, TRUE)>>
           /\ [phone |-> m.from, latitude |-> m.latitude,
               longitude |-> m.longitude, address |-> m.address]
                  \in user_locations
           /\ Rows(hist, nreq) =
                  <<[phone |-> m.from,
                     message |-> <<"LOCATION: ", m.latitude, ",", m.longitude>>,
                     sender |-> "user", channel |-> "whatsapp",
                     intent |-> None, req |-> nreq],
                    [phone |-> m.from, message |-> LOCATION_ACK_TEXT,
                     sender |-> "bot", channel |-> "whatsapp",
                     intent |-> None, req |-> nreq]>>

\* the task has handled, one after the other, the two locations of one
\* payload sent from the same phone
TwoLocationsHandled ==
    /\ response.endpoint = "webhook_receiver"
    /\ task.pc = "done"
    /\ task.arg = Body(<<Entry(<<Change("messages", <<Delhi, Mumbai>>)>>)>>)
    /\ dispatched = <<<<1, 1, 1>>, <<1, 1, 2>>>>

\* C13: user_locations holds at most one row per phone, and after two
\* locations of the same phone handled one after the other that row holds
\* the latitude, longitude and address of the later one.  (Fails: the row
\* is never written.)
C13_LaterLocationKept ==
    /\ \A r1 \in user_locations : \A r2 \in user_locations :
           r1.phone = r2.phone => r1 = r2
    /\ TwoLocationsHandled
       => user_locations =
              {[phone |-> Mumbai.from, latitude |-> Mumbai.latitude,
                longitude |-> Mumbai.longitude, address |-> Mumbai.address]}

\* C14: only the handling of a location message touches user_locations:
\* while any other item is handled (a text with a failing pipeline, a
\* button, a list, an image, an audio, an unsupported message, a status
\* change, a process_user_message call) no location write is attempted and
\* the table does not change.
C14_OnlyLocationWrites ==
    [][ ~(cur'.kind = "message" /\ cur'.message.type = "location")
        => /\ user_locations' = user_locations
           /\ Locs(hist' \o todo') = <<>> ]_vars

\* a text message whose pipeline failed has been handled to the end, the
\* apology delivered
C14_Witness ==
    /\ cur.kind = "message"
    /\ cur.message.type = "text"
    /\ todo = <<>>
    /\ \E i \in 1..Len(hist) :
           /\ IsCall(hist[i]) /\ ~hist[i].ok
           /\ hist[Len(hist)] = SendEv(cur.message.from, ERROR_TEXT, None, TRUE)
    /\ Locs(hist) = <<>>

\* cur is a text handled by one of the two text pipelines
InTextPipeline == TextInPipeline \/ cur.kind = "process_user_message"

\* the positions of the calls of a collaborator in a run of effects
CallsOf(evs, name) ==
    {i \in 1..Len(evs) : IsCall(evs[i]) /\ evs[i].name = name}

\* the i-th effect is the primary delivery: the first delivery attempted,
\* when it does not carry an apology
PrimaryDelivery(evs, i) ==
    /\ IsSend(evs[i])
    /\ evs[i].text \notin {ERROR_TEXT, APP_ERROR_TEXT}
    /\ \A j \in 1..(i - 1) : ~IsSend(evs[j])

\* C15: in both text pipelines, when detect_language returns "en" neither
\* translate_to_english nor translate_from_english is called for the
\* message and the text delivered is the classifier's response; when it
\* returns another language each is called at most once, translate_to_english
\* exactly once before any classification and translate_from_english exactly
\* once between classification and delivery.
C15_TranslationOnlyWhenNeeded ==
    InTextPipeline
    => LET to_en == CallsOf(Course, "translate_to_english")
           from_en == CallsOf(Course, "translate_from_english")
           classified == CallsOf(Course, "process_query")
           delivered == {i \in 1..Len(Course) : PrimaryDelivery(Course, i)}
       IN  \A d \in CallsOf(Course, "detect_language") :
               IF ~Course[d].ok THEN to_en = {} /\ from_en = {}
               ELSE IF Course[d].result = "en"
               THEN /\ to_en = {}
                    /\ from_en = {}
                    /\ \A i \in delivered : \E q \in classified :
                           Course[i].text = Course[q].result.response
               ELSE /\ Cardinality(to_en) <= 1
                    /\ Cardinality(from_en) <= 1
                    /\ \A q \in classified :
                           to_en # {} /\ \A t \in to_en : d < t /\ t < q
                    /\ \A f \in from_en : \E q \in classified : q < f
                    /\ \A i \in delivered :
                           from_en # {} /\ \A f \in from_en : f < i

\* a message in the working language has been classified and its reply,
\* the classifier's response, delivered
C15_Witness ==
    /\ TextInPipeline
    /\ todo = <<>>
    /\ \E d \in CallsOf(hist, "detect_language") : hist[d].result = "en"
    /\ \E q \in CallsOf(hist, "process_query") :
           /\ hist[q].ok
           /\ \E i \in 1..Len(hist) :
                  /\ PrimaryDelivery(hist, i)
                  /\ hist[i].ok
                  /\ hist[i].text = hist[q].result.response

\* every delivery attempted for cur succeeded
DeliveriesWork == \A i \in 1..Len(hist) : IsSend(hist[i]) => hist[i].ok

\* C16: a failure of speech synthesis does not fail the turn, in either
\* text pipeline: the reply is delivered without a voice reference, no
\* apology is sent, and the bot turn is in the ledger with the classifier's
\* intent.  (Fails: process_user_message answers with the apology.)
C16_SpeechFailureIsNotFatal ==
    ( /\ InTextPipeline
      /\ todo = <<>>
      /\ DeliveriesWork
      /\ \E g \in CallsOf(hist, "generate_speech") : ~hist[g].ok )
    => /\ \E i \in 1..Len(hist) :
              PrimaryDelivery(hist, i) /\ hist[i].voice = None
       /\ \A i \in 1..Len(hist) :
              IsSend(hist[i]) => hist[i].text \notin {ERROR_TEXT, APP_ERROR_TEXT}
       /\ \E q \in CallsOf(hist, "process_query") :
              \E n \in 1..Len(RowsOfRequest) :
                  /\ RowsOfRequest[n].sender = "bot"
                  /\ RowsOfRequest[n].intent = hist[q].result.intent

\* the turn of cur went through: no pipeline step raised and every delivery
\* succeeded
SuccessfulTurn ==
    /\ TextInPipeline
    /\ todo = <<>>
    /\ DeliveriesWork
    /\ \A i \in 1..Len(hist) : ~StepRaised(hist, i)
    /\ \E i \in 1..Len(hist) : PrimaryDelivery(hist, i)

\* the classifier's result for cur
Classified(intent) ==
    \E q \in CallsOf(hist, "process_query") :
        hist[q].ok /\ hist[q].result.intent = intent

\* C17: after a successful turn classified emergency the fixed
\* emergency-services message has been sent after the primary reply, and a
\* system interaction EMERGENCY_DETECTED follows the bot interaction of the
\* turn in the ledger.  (Fails: neither interaction is written.)
C17_EmergencyAudited ==
    (SuccessfulTurn /\ Classified("emergency"))
    => /\ \E i \in 1..Len(hist) : \E j \in (i + 1)..Len(hist) :
              /\ PrimaryDelivery(hist, i)
              /\ hist[j] = SendEv(cur.message.from, EMERGENCY_TEXT, None, TRUE)
       /\ \E a \in 1..Len(RowsOfRequest) : \E b \in (a + 1)..Len(RowsOfRequest) :
              /\ RowsOfRequest[a].sender = "bot"
              /\ RowsOfRequest[a].intent = "emergency"
              /\ RowsOfRequest[b].sender = "system"
              /\ RowsOfRequest[b].message = <<"EMERGENCY_DETECTED">>

\* the follow-up the entities of a classification select
FollowUp(nlp) ==
    IF nlp.intent = "vaccine_info"
    THEN IF nlp.entities.vaccine # None
         THEN <<"Information about ", nlp.entities.vaccine,
                ": Schedule, dosage, and side effects will be shown here.">>
         ELSE VACCINE_INFO_TEXT
    ELSE IF nlp.entities.location # None
         THEN <<"Checking outbreak alerts for ", nlp.entities.location, "...">>
         ELSE SHARE_LOCATION_TEXT

\* C18: when a text has been classified vaccine_info or outbreak_alert, no
\* pipeline step raised and the primary reply was delivered, exactly one
\* follow-up is sent after it, to the sender and without voice: the detail
\* of the vaccine named by entities.vaccine or else the generic vaccine
\* information; the alert for entities.location or else the request for the
\* user's location.
C18_FollowUpByEntity ==
    TextInPipeline
    => \A q \in CallsOf(Course, "process_query") :
           ( /\ Course[q].ok
             /\ Course[q].result.intent \in {"vaccine_info", "outbreak_alert"}
             /\ \A i \in 1..Len(Course) : ~StepRaised(Course, i)
             /\ \E i \in 1..Len(Course) :
                    PrimaryDelivery(Course, i) /\ Course[i].ok )
           => /\ Len(Sends(Course)) = 2
              /\ Sends(Course)[2].to = cur.message.from
              /\ Sends(Course)[2].text = FollowUp(Course[q].result)
              /\ Sends(Course)[2].voice = None

\* a vaccine question naming a vaccine has been answered and followed up
C18_Witness ==
    /\ SuccessfulTurn
    /\ Classified("vaccine_info")
    /\ \E q \in CallsOf(hist, "process_query") :
           hist[q].result.entities.vaccine = "bcg"
    /\ Len(Sends(hist)) = 2

\* cur is a list reply carrying an id, from a valid sender
ListSelection ==
    /\ cur.kind = "message"
    /\ validate_phone_number(cur.message.from)
    /\ cur.message.type = "interactive"
    /\ cur.message.itype = "list_reply"
    /\ cur.message.lid # NoneId

\* the reply the prefix of a list id selects, about the rest of the id
ListReplyFor(lid) ==
    IF lid[1] = "disease_"
    THEN <<"Information about ">> \o Tail(lid)
             \o <<": Symptoms, prevention, and treatment details will be shown here.">>
    ELSE IF lid[1] = "symptom_"
    THEN <<"Analyzing symptom: ">> \o Tail(lid)
             \o <<". Please describe any other symptoms.">>
    ELSE IF lid[1] = "vaccine_"
    THEN <<"Information about ">> \o Tail(lid)
             \o <<": Schedule, dosage, and side effects will be shown here.">>
    ELSE UNKNOWN_SELECTION_TEXT

\* C19: a list reply is answered by the responder its id's prefix selects
\* (disease_, symptom_, vaccine_, or else the fixed "unrecognized
\* selection" text): that reply is the first thing sent, the only one when
\* it is delivered, and no classification or translation call is made.
C19_ListReplyByPrefix ==
    ListSelection
    => /\ Calls(Course) = <<>>
       /\ Sends(Course) # <<>>
       /\ Sends(Course)[1].to = cur.message.from
       /\ Sends(Course)[1].text = ListReplyFor(cur.message.lid)
       /\ Sends(Course)[1].voice = None
       /\ Sends(Course)[1].ok => Len(Sends(Course)) = 1

\* a symptom selection has been answered
C19_Witness ==
    /\ ListSelection
    /\ cur.message.lid = <<"symptom_", "fever">>
    /\ todo = <<>>
    /\ Len(Sends(hist)) = 1
    /\ hist[Len(hist)].ok

\* C20: every message from a valid sender that has been answered left at
\* least two interactions in the ledger: a user row for the inbound turn
\* and a bot row for each reply delivered.  (Fails: no row is written.)
C20_TwoRowsPerExchange ==
    ( /\ cur.kind = "message"
      /\ validate_phone_number(cur.message.from)
      /\ todo = <<>>
      /\ \E i \in 1..Len(hist) : IsSend(hist[i]) /\ hist[i].ok )
    => LET rows == Rows(hist, nreq)
           replies == SelectSeq(hist, LAMBDA e : IsSend(e) /\ e.ok)
           by(sender) == SelectSeq(rows, LAMBDA r : r.sender = sender)
       IN  /\ Len(rows) >= 2
           /\ Len(by("user")) = 1
           /\ Len(by("bot")) = Len(replies)

\* cur comes from a sender whose phone number fails validation
InvalidSender ==
    \/ cur.kind = "message" /\ ~validate_phone_number(cur.message.from)
    \/ /\ cur.kind = "process_user_message"
       /\ ~validate_phone_number(cur.message.user_phone)

\* C21: a message whose sender fails phone-number validation causes no
\* delivery, no ledger write, no location write and no collaborator call,
\* in the WhatsApp handler and in process_user_message.  (Fails:
\* process_user_message never validates the phone of an SMS.)
C21_InvalidSenderIgnored ==
    InvalidSender => Course = <<>> /\ Rows(hist, nreq) = <<>>

\* the i-th effect is a ledger or location write that failed
WriteFailed(evs, i) == (IsLog(evs[i]) \/ IsLoc(evs[i])) /\ ~evs[i].ok

\* the i-th effect is the delivery of an apology
IsApology(evs, i) ==
    IsSend(evs[i]) /\ evs[i].text \in {ERROR_TEXT, APP_ERROR_TEXT}

\* the step that follows the write of the inbound turn raises whatever the
\* ledger does: a button click (the await of a method object) and a list
\* reply without an id (startswith on None)
NextStepRaises ==
    /\ cur.kind = "message"
    /\ \/ cur.message.type = "button"
       \/ /\ cur.message.type = "interactive"
          /\ \/ cur.message.itype = "button_reply"
             \/ cur.message.itype = "list_reply" /\ cur.message.lid = NoneId

\* C22: a failed ledger append or location upsert is swallowed where it
\* happens: the next thing the handler does is its next step and never the
\* apology, and after a failed write of the inbound turn or of the location
\* the handler does go on (to the collaborator call, the location write or
\* the reply).  Stated for the handlers whose step after the write does not
\* raise by itself.
C22_WriteFailureSwallowed ==
    (cur.kind \in {"message", "process_user_message"} /\ ~NextStepRaises)
    => \A i \in 1..Len(Course) :
           WriteFailed(Course, i)
           => /\ i < Len(Course) => ~IsApology(Course, i + 1)
              /\ (IsLoc(Course[i]) \/ Course[i].sender = "user")
                 => i < Len(Course)

\* a location was handled while both writes of the turn failed: the
\* acknowledgment was delivered all the same and the bot write attempted
C22_Witness ==
    /\ LocationEvent
    /\ todo = <<>>
    /\ Len(hist) = 4
    /\ WriteFailed(hist, 1)
    /\ WriteFailed(hist, 2)
    /\ hist[3] = SendEv(cur.message.from, LOCATION_ACK_TEXT, None, TRUE)
    /\ IsLog(hist[4])

\* C23: verify_webhook answers with the hub.challenge value and a success
\* status exactly when hub.mode is "subscribe" and hub.verify_token is the
\* configured token; any other combination (wrong or missing mode or token)
\* gets a status outside 2xx and a body that is not the challenge.
C23_ChallengeOnlyWhenVerified ==
    response.endpoint = "webhook_verification"
    => IF /\ req.query.mode = "subscribe"
          /\ req.query.token = WHATSAPP_VERIFY_TOKEN
       THEN response.status = 200 /\ response.content = req.query.challenge
       ELSE /\ response.status \notin 200..299
            /\ response.content # req.query.challenge

\* a subscription with the configured token has been answered with the
\* challenge
C23_Witness ==
    /\ response.endpoint = "webhook_verification"
    /\ req.query.mode = "subscribe"
    /\ req.query.token = WHATSAPP_VERIFY_TOKEN
    /\ response.status = 200
    /\ response.content = req.query.challenge

\* the i-th effect inserted an interaction of the given sender
Appended(evs, i, sender) ==
    IsLog(evs[i]) /\ evs[i].ok /\ evs[i].sender = sender

\* C24: for a text message in the WhatsApp handler the user interaction is
\* appended before any collaborator call, the bot interaction is appended
\* only after the primary delivery succeeded, a follow-up is sent only after
\* that bot interaction, and after a failed primary delivery there is
\* neither bot interaction nor follow-up.  (Fails: the collaborators are
\* called although the user interaction has not been appended.)
C24_InteractionsAroundDelivery ==
    TextInPipeline
    => /\ \A i \in 1..Len(hist) :
              IsCall(hist[i])
              => \E j \in 1..(i - 1) : Appended(hist, j, "user")
       /\ \A j \in 1..Len(hist) :
              Appended(hist, j, "bot")
              => \E i \in 1..(j - 1) : PrimaryDelivery(hist, i) /\ hist[i].ok
       /\ \A i \in 1..Len(hist) : \A j \in (i + 1)..Len(hist) :
              (PrimaryDelivery(hist, i) /\ IsSend(hist[j])
                  /\ ~IsApology(hist, j))
              => \E b \in (i + 1)..(j - 1) : Appended(hist, b, "bot")
       /\ \A i \in 1..Len(hist) : \A j \in (i + 1)..Len(hist) :
              (PrimaryDelivery(hist, i) /\ ~hist[i].ok)
              => /\ ~Appended(hist, j, "bot")
                 /\ IsSend(hist[j]) => IsApology(hist, j)

\* a comes before b in entry, change and message order
Before(a, b) ==
    \/ a[1] < b[1]
    \/ a[1] = b[1] /\ a[2] < b[2]
    \/ a[1] = b[1] /\ a[2] = b[2] /\ a[3] < b[3]

\* C25: the items of one payload are dispatched in entry, change and message
\* array order, and an item is dispatched only when every effect of the one
\* before it has been performed.
C25_DispatchInArrayOrder ==
    [][(dispatched' # dispatched /\ dispatched' # <<>>)
       => /\ todo = <<>>
          /\ Len(dispatched') = Len(dispatched) + 1
          /\ \A k \in 1..Len(dispatched) :
                 Before(dispatched[k], dispatched'[Len(dispatched')])]_vars

C25_Witness ==
    /\ dispatched = <<<<1, 1, 1>>, <<1, 1, 2>>>>
    /\ cur.message = Audio(ValidPhone)
    /\ hist # <<>>
    /\ todo = <<>>

\* C26: a scheduled payload is processed to the end, and no item of it is
\* dispatched twice: nothing is attempted again.
C26_TerminatesWithoutRetry ==
    /\ [](\A i \in 1..Len(dispatched) : \A j \in 1..Len(dispatched) :
              dispatched[i] = dispatched[j] => i = j)
    /\ (task.pc = "scheduled") ~> (task.pc = "done")

C26_Witness ==
    /\ task.pc = "done"
    /\ Len(dispatched) = 2
    /\ raised

\* the i-th effect is a delivery that went through
Delivered(evs, i) == IsSend(evs[i]) /\ evs[i].ok

\* C27: among the deliveries of one message of the WhatsApp handler that went
\* through there is at most one apology, and when there is one there is
\* nothing else: no primary reply was delivered beside it.
C27_OneApologyOrOneReply ==
    cur.kind = "message"
    => \A i \in 1..Len(Course) :
           (Delivered(Course, i) /\ IsApology(Course, i))
           => \A j \in 1..Len(Course) : Delivered(Course, j) => j = i

\* the primary delivery failed, the apology of _process_user_query failed
\* too, and the apology of _handle_text_message went through
C27_Witness ==
    /\ TextInPipeline
    /\ todo = <<>>
    /\ \E i \in 1..Len(hist) :
           /\ PrimaryDelivery(hist, i)
           /\ ~hist[i].ok
           /\ i + 2 = Len(hist)
           /\ IsApology(hist, i + 1) /\ ~hist[i + 1].ok
           /\ IsApology(hist, i + 2) /\ hist[i + 2].ok

\* the primary reply of a text message was delivered and its follow-up
\* failed: the follow-up's delivery raised, or its handler did
FollowUpFailed ==
    /\ TextInPipeline
    /\ todo = <<>>
    /\ \E i \in 1..Len(hist) :
           /\ PrimaryDelivery(hist, i)
           /\ hist[i].ok
           /\ \/ \E j \in (i + 1)..Len(hist) : IsSend(hist[j]) /\ ~hist[j].ok
              \/ Classified("symptom_check")

\* C28: when the follow-up of a text message fails no apology is sent, and
\* the ledger holds the bot interaction of the primary reply that was
\* delivered.  (Fails: the bot interaction is not in the ledger.)
C28_FollowUpFailureContained ==
    FollowUpFailed
    => /\ \A j \in 1..Len(hist) : ~IsApology(hist, j)
       /\ \E i \in 1..Len(hist) : \E n \in 1..Len(RowsOfRequest) :
              /\ PrimaryDelivery(hist, i)
              /\ RowsOfRequest[n].sender = "bot"
              /\ RowsOfRequest[n].message = hist[i].text

\* cur is a text message from a valid sender whose body is missing, empty
\* or whitespace only
BlankText ==
    /\ cur.kind = "message"
    /\ cur.message.type = "text"
    /\ validate_phone_number(cur.message.from)
    /\ cur.message.body \in {None, "", "   "}

\* C29: a text message without a body, or with an empty or whitespace-only
\* body, causes no collaborator call and no ledger write; the first thing
\* done is one delivery to the sender of the fixed "no message received"
\* text without voice, that text is sent once, and when that delivery goes
\* through nothing else is done.
C29_BlankTextOneFixedReply ==
    BlankText
    => /\ \A i \in 1..Len(Course) : ~IsCall(Course[i]) /\ ~IsLog(Course[i])
       /\ Rows(Course, nreq) = <<>>
       /\ Course # <<>>
       /\ IsSend(Course[1])
       /\ Course[1].to = cur.message.from
       /\ Course[1].text = EMPTY_TEXT
       /\ Course[1].voice = None
       /\ \A i \in 2..Len(Course) : Course[i].text # EMPTY_TEXT
       /\ Course[1].ok => Len(Course) = 1

C29_Witness ==
    /\ BlankText
    /\ cur.message.body = "   "
    /\ todo = <<>>
    /\ hist = <<SendEv(cur.message.from, EMPTY_TEXT, None, TRUE)>>

\* C30: POST /api/sms/webhook answers 400 and schedules nothing when the JSON
\* body has no phone or no message; otherwise it answers "received" and
\* schedules process_user_message for that phone and message on channel sms,
\* which never attempts a delivery through the WhatsApp client.  (Fails: a
\* body without phone or message is answered with 500.)
C30_SmsWebhookContract ==
    /\ (req.endpoint = "sms_webhook" /\ req.raw.enc = "json")
       => IF ~Truthy(req.raw.doc.phone) \/ ~Truthy(req.raw.doc.message)
          THEN response.status = 400 /\ task.pc = "idle"
          ELSE /\ response.status = 200
               /\ response.content = "received"
               /\ task.pc = "scheduled"
               /\ task.arg = UserMessage(req.raw.doc.phone,
                                         req.raw.doc.message, "sms")
    /\ (cur.kind = "process_user_message" /\ cur.message.channel = "sms")
       => /\ response.endpoint = "sms_webhook"
          /\ dispatched = <<cur.at>>
          /\ \A i \in 1..Len(Course) : ~IsSend(Course[i])

====
